---- MODULE Spec2Model ----
(***************************************************************************)
(* Screen-time analytics core (api/processing.py) and its HTTP callers     *)
(* (api/index.py) as a state machine.                                      *)
(*                                                                         *)
(* Representation.                                                         *)
(*  - A Python str is a sequence of one-character strings, so that         *)
(*    str.lower(), the `in` substring test, date parsing and formatting    *)
(*    are computed and not assumed.                                        *)
(*  - A value that may be None / NaN / NaT is a record [k, n, s, t]: k is  *)
(*    the kind ("none", "num", "str", "nan", ...), the rest the payload.   *)
(*  - time_minutes is a whole number of minutes.  time_hours              *)
(*    (= time_minutes / 60.0) is kept exactly, as a count of 1/60 hour.    *)
(*    round(x, 2) of an hour value is a count of 1/100 hour, and           *)
(*    round(x, 2) of avg_pickups_per_day a count of 1/100 pickup.          *)
(*    Quotients of such counts are kept exactly and compared with the      *)
(*    thresholds by cross-multiplication; where the quotient of two         *)
(*    floats that are no whole numbers meets a threshold exactly, the       *)
(*    comparison is done as the floats do it (section binary64).            *)
(***************************************************************************)
EXTENDS Integers, Sequences, FiniteSets, TLC

VARIABLES
  entries,        \* the list object the caller passes to analyze_entries
  result,         \* what the last call of analyze_entries returned (or raised)
  analyzed_df,    \* the frame analyze_entries built in that call (its local df)
  calls,          \* number of analyze_entries calls made on `entries`
  app_name,       \* argument of the last auto_categorize_app call
  category,       \* its return value
  metrics,        \* argument of the last calculate_chronic_score call
  chronic_score,  \* its return value
  prev_call,      \* the calculate_chronic_score call made before that one
  _storage,       \* index.py: the dict from user id to the list of the user's entries
  request,        \* the last request made to an endpoint of index.py
  response,       \* the response to it
  storage_before, \* _storage when that request came in
  accepted,       \* per user, the entries submitted since the user's last clear
  requests        \* number of requests made

core_vars == <<entries, result, analyzed_df, calls, app_name, category, metrics, chronic_score, prev_call>>

api_vars == <<_storage, request, response, storage_before, accepted, requests>>

vars == <<entries, result, analyzed_df, calls, app_name, category, metrics, chronic_score, prev_call,
          _storage, request, response, storage_before, accepted, requests>>

-----------------------------------------------------------------------------
(* Python values *)

\* n: the payload of a number, s: of a str the program looks into (a sequence of
\* characters), t: of a str it only compares and passes on (category names).
None == [k |-> "none", n |-> 0, s |-> <<>>, t |-> ""]
NaN == [k |-> "nan", n |-> 0, s |-> <<>>, t |-> ""]
NaT == [k |-> "nat", n |-> 0, s |-> <<>>, t |-> ""]
Num(x) == [k |-> "num", n |-> x, s |-> <<>>, t |-> ""]
Str(x) == [k |-> "str", n |-> 0, s |-> x, t |-> ""]
Text(x) == [k |-> "str", n |-> 0, s |-> <<>>, t |-> x]
Timestamp(x) == [k |-> "ts", n |-> x, s |-> <<>>, t |-> ""]
\* float('inf')
Inf == [k |-> "inf", n |-> 0, s |-> <<>>, t |-> ""]

\* Characters in code point order (the order Python compares str by).
Chars ==
  <<" ", "&", "-", ".", "/",
    "0", "1", "2", "3", "4", "5", "6", "7", "8", "9", ":",
    "A", "B", "C", "D", "E", "F", "G", "H", "I", "J", "K", "L", "M",
    "N", "O", "P", "Q", "R", "S", "T", "U", "V", "W", "X", "Y", "Z",
    "a", "b", "c", "d", "e", "f", "g", "h", "i", "j", "k", "l", "m",
    "n", "o", "p", "q", "r", "s", "t", "u", "v", "w", "x", "y", "z">>

\* ord(c), as the position of c in Chars
CodeTable == [c \in {Chars[i] : i \in 1..Len(Chars)} |-> CHOOSE i \in 1..Len(Chars) : Chars[i] = c]
Code(c) == CodeTable[c]

UpperFirst == Code("A")
UpperLast == Code("Z")
CaseOffset == Code("a") - Code("A")

\* str.lower() on one character
LowerChar(c) ==
  IF Code(c) >= UpperFirst /\ Code(c) <= UpperLast THEN Chars[Code(c) + CaseOffset] ELSE c

\* str.lower()
Lower(s) == [i \in 1..Len(s) |-> LowerChar(s[i])]

\* pattern in s  (substring test)
Contains(s, pattern) ==
  \E i \in 0..(Len(s) - Len(pattern)) :
    \A j \in 1..Len(pattern) : s[i + j] = pattern[j]

\* s < t for str (lexicographic by code point)
RECURSIVE StrLess(_, _)
StrLess(s, t) ==
  IF t = <<>> THEN FALSE
  ELSE IF s = <<>> THEN TRUE
  ELSE IF Head(s) = Head(t) THEN StrLess(Tail(s), Tail(t))
  ELSE Code(Head(s)) < Code(Head(t))

-----------------------------------------------------------------------------
(* CATEGORY_PATTERNS: a dict, iterated in insertion order *)

CATEGORY_PATTERNS ==
  <<
    [category |-> "Social Media", patterns |-> <<
       (* instagram *) <<"i","n","s","t","a","g","r","a","m">>,
       (* facebook *) <<"f","a","c","e","b","o","o","k">>,
       (* twitter *) <<"t","w","i","t","t","e","r">>,
       (* x.com *) <<"x",".","c","o","m">>,
       (* tiktok *) <<"t","i","k","t","o","k">>,
       (* snapchat *) <<"s","n","a","p","c","h","a","t">>,
       (* linkedin *) <<"l","i","n","k","e","d","i","n">>,
       (* reddit *) <<"r","e","d","d","i","t">>,
       (* pinterest *) <<"p","i","n","t","e","r","e","s","t">>,
       (* whatsapp *) <<"w","h","a","t","s","a","p","p">>,
       (* telegram *) <<"t","e","l","e","g","r","a","m">>,
       (* discord *) <<"d","i","s","c","o","r","d">>,
       (* youtube *) <<"y","o","u","t","u","b","e">>,
       (* twitch *) <<"t","w","i","t","c","h">>,
       (* messenger *) <<"m","e","s","s","e","n","g","e","r">>,
       (* wechat *) <<"w","e","c","h","a","t">>,
       (* line *) <<"l","i","n","e">>,
       (* viber *) <<"v","i","b","e","r">>
    >>],
    [category |-> "Productivity", patterns |-> <<
       (* gmail *) <<"g","m","a","i","l">>,
       (* outlook *) <<"o","u","t","l","o","o","k">>,
       (* slack *) <<"s","l","a","c","k">>,
       (* notion *) <<"n","o","t","i","o","n">>,
       (* trello *) <<"t","r","e","l","l","o">>,
       (* asana *) <<"a","s","a","n","a">>,
       (* todoist *) <<"t","o","d","o","i","s","t">>,
       (* calendar *) <<"c","a","l","e","n","d","a","r">>,
       (* notes *) <<"n","o","t","e","s">>,
       (* reminders *) <<"r","e","m","i","n","d","e","r","s">>,
       (* evernote *) <<"e","v","e","r","n","o","t","e">>,
       (* onenote *) <<"o","n","e","n","o","t","e">>,
       (* google docs *) <<"g","o","o","g","l","e"," ","d","o","c","s">>,
       (* sheets *) <<"s","h","e","e","t","s">>,
       (* drive *) <<"d","r","i","v","e">>,
       (* dropbox *) <<"d","r","o","p","b","o","x">>,
       (* zoom *) <<"z","o","o","m">>,
       (* teams *) <<"t","e","a","m","s">>,
       (* meet *) <<"m","e","e","t">>
    >>],
    [category |-> "Entertainment", patterns |-> <<
       (* netflix *) <<"n","e","t","f","l","i","x">>,
       (* spotify *) <<"s","p","o","t","i","f","y">>,
       (* apple music *) <<"a","p","p","l","e"," ","m","u","s","i","c">>,
       (* disney *) <<"d","i","s","n","e","y">>,
       (* hulu *) <<"h","u","l","u">>,
       (* prime video *) <<"p","r","i","m","e"," ","v","i","d","e","o">>,
       (* hbo *) <<"h","b","o">>,
       (* paramount *) <<"p","a","r","a","m","o","u","n","t">>,
       (* peacock *) <<"p","e","a","c","o","c","k">>,
       (* crunchyroll *) <<"c","r","u","n","c","h","y","r","o","l","l">>,
       (* plex *) <<"p","l","e","x">>,
       (* vudu *) <<"v","u","d","u">>
    >>],
    [category |-> "Gaming", patterns |-> <<
       (* game *) <<"g","a","m","e">>,
       (* play *) <<"p","l","a","y">>,
       (* roblox *) <<"r","o","b","l","o","x">>,
       (* minecraft *) <<"m","i","n","e","c","r","a","f","t">>,
       (* fortnite *) <<"f","o","r","t","n","i","t","e">>,
       (* pubg *) <<"p","u","b","g">>,
       (* cod *) <<"c","o","d">>,
       (* among us *) <<"a","m","o","n","g"," ","u","s">>,
       (* candy crush *) <<"c","a","n","d","y"," ","c","r","u","s","h">>,
       (* clash *) <<"c","l","a","s","h">>,
       (* pokemon go *) <<"p","o","k","e","m","o","n"," ","g","o">>
    >>],
    [category |-> "News", patterns |-> <<
       (* news *) <<"n","e","w","s">>,
       (* cnn *) <<"c","n","n">>,
       (* bbc *) <<"b","b","c">>,
       (* reuters *) <<"r","e","u","t","e","r","s">>,
       (* nytimes *) <<"n","y","t","i","m","e","s">>,
       (* washington post *) <<"w","a","s","h","i","n","g","t","o","n"," ","p","o","s","t">>,
       (* the guardian *) <<"t","h","e"," ","g","u","a","r","d","i","a","n">>,
       (* bloomberg *) <<"b","l","o","o","m","b","e","r","g">>,
       (* wsj *) <<"w","s","j">>,
       (* economist *) <<"e","c","o","n","o","m","i","s","t">>
    >>],
    [category |-> "Shopping", patterns |-> <<
       (* amazon *) <<"a","m","a","z","o","n">>,
       (* ebay *) <<"e","b","a","y">>,
       (* etsy *) <<"e","t","s","y">>,
       (* shopify *) <<"s","h","o","p","i","f","y">>,
       (* wish *) <<"w","i","s","h">>,
       (* alibaba *) <<"a","l","i","b","a","b","a">>,
       (* target *) <<"t","a","r","g","e","t">>,
       (* walmart *) <<"w","a","l","m","a","r","t">>,
       (* best buy *) <<"b","e","s","t"," ","b","u","y">>,
       (* zara *) <<"z","a","r","a">>,
       (* nike *) <<"n","i","k","e">>,
       (* adidas *) <<"a","d","i","d","a","s">>
    >>],
    [category |-> "Health & Fitness", patterns |-> <<
       (* fitness *) <<"f","i","t","n","e","s","s">>,
       (* workout *) <<"w","o","r","k","o","u","t">>,
       (* myfitnesspal *) <<"m","y","f","i","t","n","e","s","s","p","a","l">>,
       (* strava *) <<"s","t","r","a","v","a">>,
       (* nike run *) <<"n","i","k","e"," ","r","u","n">>,
       (* fitbit *) <<"f","i","t","b","i","t">>,
       (* apple health *) <<"a","p","p","l","e"," ","h","e","a","l","t","h">>,
       (* calm *) <<"c","a","l","m">>,
       (* headspace *) <<"h","e","a","d","s","p","a","c","e">>,
       (* meditation *) <<"m","e","d","i","t","a","t","i","o","n">>,
       (* yoga *) <<"y","o","g","a">>
    >>],
    [category |-> "Education", patterns |-> <<
       (* coursera *) <<"c","o","u","r","s","e","r","a">>,
       (* udemy *) <<"u","d","e","m","y">>,
       (* khan academy *) <<"k","h","a","n"," ","a","c","a","d","e","m","y">>,
       (* duolingo *) <<"d","u","o","l","i","n","g","o">>,
       (* quizlet *) <<"q","u","i","z","l","e","t">>,
       (* ted *) <<"t","e","d">>,
       (* skillshare *) <<"s","k","i","l","l","s","h","a","r","e">>,
       (* masterclass *) <<"m","a","s","t","e","r","c","l","a","s","s">>,
       (* edx *) <<"e","d","x">>
    >>]
  >>

\* for pattern in patterns: if pattern in app_lower: return category
RECURSIVE match_patterns(_, _)
match_patterns(patterns, app_lower) ==
  IF patterns = <<>> THEN FALSE
  ELSE IF Contains(app_lower, Head(patterns)) THEN TRUE
  ELSE match_patterns(Tail(patterns), app_lower)

\* for category, patterns in CATEGORY_PATTERNS.items(): ... ; return "Other"
RECURSIVE match_categories(_, _)
match_categories(items, app_lower) ==
  IF items = <<>> THEN "Other"
  ELSE IF match_patterns(Head(items).patterns, app_lower) THEN Head(items).category
  ELSE match_categories(Tail(items), app_lower)

\* auto_categorize_app without the lower()
auto_categorize_app_case_sensitive(name) == match_categories(CATEGORY_PATTERNS, name)

auto_categorize_app(name) == match_categories(CATEGORY_PATTERNS, Lower(name))

-----------------------------------------------------------------------------
(* Numbers *)

\* round(num / den) to the nearest integer, ties to the even one (Python's round),
\* for num >= 0 and den > 0
RoundHalfEven(num, den) ==
  LET q == num \div den
      r == num % den
  IN  IF 2 * r < den THEN q
      ELSE IF 2 * r > den THEN q + 1
      ELSE IF q % 2 = 0 THEN q ELSE q + 1

\* round(minutes / 60.0, 2), in 1/100 hour
RoundHours(minutes) == RoundHalfEven(minutes * 100, 60)

IsDigit(c) == Code(c) >= Code("0") /\ Code(c) <= Code("9")
DigitVal(c) == Code(c) - Code("0")

RECURSIVE ParseDigits(_, _)
ParseDigits(s, acc) ==
  IF s = <<>> THEN acc ELSE ParseDigits(Tail(s), 10 * acc + DigitVal(Head(s)))

RECURSIVE FormatDigits(_, _)
FormatDigits(n, width) ==
  IF width = 0 THEN <<>>
  ELSE Append(FormatDigits(n \div 10, width - 1), Chars[Code("0") + (n % 10)])

\* pd.to_numeric(x, errors='coerce') on one cell: a number stays, a str of decimal
\* digits is parsed, anything else (None, any other str) becomes NaN
to_numeric(x) ==
  IF x.k = "num" \/ x.k = "inf" THEN x
  ELSE IF x.k = "str" /\ x.s # <<>> /\ (\A i \in 1..Len(x.s) : IsDigit(x.s[i]))
       THEN Num(ParseDigits(x.s, 0))
  ELSE NaN

-----------------------------------------------------------------------------
(* binary64: the floats of Python.  TLC's integers have 32 bits and the     *)
(* significand of a float has 53, so a natural number of any size is kept   *)
(* as the sequence of its digits in base 2^15, lowest first, without        *)
(* leading zeros; a positive float is [m, e], the value m * 2^e with m      *)
(* below 2^53.                                                              *)

\* bits of a digit, and of the significand of a float
DigitBits == 15
Precision == 53

Base == 2^DigitBits

RECURSIVE NatOf(_)
NatOf(n) == IF n = 0 THEN <<>> ELSE <<n % Base>> \o NatOf(n \div Base)

\* without the zeros at the high end
RECURSIVE Trim(_)
Trim(a) ==
  IF a = <<>> THEN <<>>
  ELSE IF a[Len(a)] = 0 THEN Trim(SubSeq(a, 1, Len(a) - 1))
  ELSE a

DigitAt(a, j) == IF j >= 1 /\ j <= Len(a) THEN a[j] ELSE 0

\* number of bits of a
BitLen(a) ==
  IF a = <<>> THEN 0
  ELSE DigitBits * (Len(a) - 1) + (CHOOSE k \in 1..DigitBits : 2^(k - 1) <= a[Len(a)] /\ a[Len(a)] < 2^k)

\* a * 2^k and a \div 2^k
Shl(a, k) ==
  LET w == k \div DigitBits
      o == k % DigitBits
  IN  Trim([j \in 1..(Len(a) + w + 1) |->
              (DigitAt(a, j - w) % 2^(DigitBits - o)) * 2^o
                + DigitAt(a, j - w - 1) \div 2^(DigitBits - o)])

Shr(a, k) ==
  LET w == k \div DigitBits
      o == k % DigitBits
  IN  Trim([j \in 1..(Len(a) - w) |->
              DigitAt(a, j + w) \div 2^o + (DigitAt(a, j + w + 1) % 2^o) * 2^(DigitBits - o)])

\* bit i of a, the lowest being bit 1
BitAt(a, i) == (DigitAt(a, (i - 1) \div DigitBits + 1) \div 2^((i - 1) % DigitBits)) % 2

NatLess(a, b) ==
  \/ Len(a) < Len(b)
  \/ /\ Len(a) = Len(b)
     /\ \E i \in 1..Len(a) : a[i] < b[i] /\ \A j \in (i + 1)..Len(a) : a[j] = b[j]

RECURSIVE AddCarry(_, _, _)
AddCarry(a, b, carry) ==
  IF a = <<>> /\ b = <<>> THEN (IF carry = 0 THEN <<>> ELSE <<carry>>)
  ELSE LET sum == DigitAt(a, 1) + DigitAt(b, 1) + carry
       IN  <<sum % Base>> \o AddCarry(IF a = <<>> THEN a ELSE Tail(a),
                                      IF b = <<>> THEN b ELSE Tail(b), sum \div Base)

NatAdd(a, b) == AddCarry(a, b, 0)

\* a - b for a >= b
RECURSIVE SubBorrow(_, _, _)
SubBorrow(a, b, borrow) ==
  IF a = <<>> THEN <<>>
  ELSE LET diff == Head(a) - DigitAt(b, 1) - borrow
       IN  <<diff % Base>> \o SubBorrow(Tail(a), IF b = <<>> THEN b ELSE Tail(b),
                                         IF diff < 0 THEN 1 ELSE 0)

NatSub(a, b) == Trim(SubBorrow(a, b, 0))

\* a * c for a digit c
RECURSIVE MulCarry(_, _, _)
MulCarry(a, c, carry) ==
  IF a = <<>> THEN (IF carry = 0 THEN <<>> ELSE <<carry>>)
  ELSE LET prod == Head(a) * c + carry
       IN  <<prod % Base>> \o MulCarry(Tail(a), c, prod \div Base)

RECURSIVE NatMul(_, _)
NatMul(a, b) ==
  IF b = <<>> THEN <<>>
  ELSE NatAdd(Trim(MulCarry(a, Head(b), 0)), Shl(NatMul(a, Tail(b)), DigitBits))

MulDigit(a, c) == Trim(MulCarry(a, c, 0))

\* Long division in base 2^15 (Knuth, The Art of Computer Programming, 4.3.1,
\* algorithm D).  The next digit of the quotient is r2 \div b, for r2 < b * Base:
\* when the highest digit of b is Base / 2 or more, the quotient of the two
\* highest digits of r2 by the highest digit of b is that digit or up to 2 more.
DivDigit(r2, b) ==
  LET n == Len(b)
      est == (DigitAt(r2, n + 1) * Base + DigitAt(r2, n)) \div b[n]
      top == IF est < Base THEN est ELSE Base - 1
  IN  CHOOSE c \in (top - 2)..top :
        /\ c >= 0
        /\ ~NatLess(r2, MulDigit(b, c))
        /\ NatLess(r2, MulDigit(b, c + 1))

\* In st, digit i of a is the next one to bring down, q and r are the quotient
\* and the remainder of the digits above it.
DivStepDigit(b, st, r2, c) ==
  [i |-> st.i - 1, q |-> <<c>> \o st.q, r |-> NatSub(r2, MulDigit(b, c))]

DivStepOn(b, st, r2) == DivStepDigit(b, st, r2, DivDigit(r2, b))

DivStep(a, b, st) == DivStepOn(b, st, Trim(<<a[st.i]>> \o st.r))

RECURSIVE DivLoop(_, _, _)
DivLoop(a, b, st) == IF st.i = 0 THEN st ELSE DivLoop(a, b, DivStep(a, b, st))

\* a \div b and a % b for b > 0: a and b are first scaled by the power of 2 that
\* makes the highest digit of b Base / 2 or more
DivStart(a, b) == DivLoop(a, b, [i |-> Len(a), q |-> <<>>, r |-> <<>>])

DivEnd(st, scale) == [q |-> Trim(st.q), r |-> Shr(st.r, scale)]

DivScaled(a, b, scale) == DivEnd(DivStart(Shl(a, scale), Shl(b, scale)), scale)

NatDivMod(a, b) == DivScaled(a, b, DigitBits * Len(b) - BitLen(b))

\* n * 2^e, or a little more if inexact, rounded to the nearest float, ties to even
\* m * 2^e for m of at most Precision + 1 bits, the lowest 0 when there is one more
Normalized(m, e) ==
  IF BitLen(m) > Precision THEN [m |-> Shr(m, 1), e |-> e + 1] ELSE [m |-> m, e |-> e]

\* n without its lowest drop bits is kept; it is rounded up when the bits dropped
\* (and what inexact stands for) are more than half, or half and kept is odd
RoundKept(n, e, inexact, drop, kept) ==
  LET above_half == inexact \/ \E i \in 1..(drop - 1) : BitAt(n, i) = 1
      up == BitAt(n, drop) = 1 /\ (above_half \/ BitAt(kept, 1) = 1)
  IN  Normalized(IF up THEN NatAdd(kept, <<1>>) ELSE kept, e + drop)

RoundDrop(n, e, inexact, drop) == RoundKept(n, e, inexact, drop, Shr(n, drop))

RoundToFloat(n, e, inexact) ==
  IF BitLen(n) <= Precision THEN [m |-> n, e |-> e]
  ELSE RoundDrop(n, e, inexact, BitLen(n) - Precision)

FloatOfInt(n) == [m |-> NatOf(n), e |-> 0]

\* x / y for positive floats: the quotient of the significands is taken with at
\* least two bits more than a float keeps, then rounded
RoundDivMod(d, e) == RoundToFloat(d.q, e, d.r # <<>>)

FloatDivShifted(x, y, shift) == RoundDivMod(NatDivMod(Shl(x.m, shift), y.m), x.e - y.e - shift)

FloatDiv(x, y) == FloatDivShifted(x, y, Precision + 2 + BitLen(y.m) - BitLen(x.m))

\* x * y
FloatMul(x, y) == RoundToFloat(NatMul(x.m, y.m), x.e + y.e, FALSE)

\* x < y
FloatLess(x, y) ==
  LET e == IF x.e < y.e THEN x.e ELSE y.e
  IN  NatLess(Shl(x.m, x.e - e), Shl(y.m, y.e - e))

-----------------------------------------------------------------------------
(* Dates: a Timestamp is a day number, days since 1970-01-01 *)

IsLeap(y) == (y % 4 = 0 /\ y % 100 # 0) \/ y % 400 = 0

DaysInMonth(y, m) ==
  IF m = 2 THEN (IF IsLeap(y) THEN 29 ELSE 28)
  ELSE IF m \in {4, 6, 9, 11} THEN 30 ELSE 31

days_from_civil(y, m, d) ==
  LET yy == IF m <= 2 THEN y - 1 ELSE y
      era == yy \div 400
      yoe == yy - era * 400
      mp == IF m > 2 THEN m - 3 ELSE m + 9
      doy == (153 * mp + 2) \div 5 + d - 1
      doe == yoe * 365 + yoe \div 4 - yoe \div 100 + doy
  IN  era * 146097 + doe - 719468

civil_from_days(z) ==
  LET zz == z + 719468
      era == zz \div 146097
      doe == zz - era * 146097
      yoe == (doe - doe \div 1460 + doe \div 36524 - doe \div 146096) \div 365
      doy == doe - (365 * yoe + yoe \div 4 - yoe \div 100)
      mp == (5 * doy + 2) \div 153
      d == doy - (153 * mp + 2) \div 5 + 1
      m == IF mp < 10 THEN mp + 3 ELSE mp - 9
  IN  [y |-> yoe + era * 400 + (IF m <= 2 THEN 1 ELSE 0), m |-> m, d |-> d]

\* the str has the shape YYYY-MM-DD
IsoShape(s) ==
  /\ Len(s) = 10
  /\ s[5] = "-" /\ s[8] = "-"
  /\ \A i \in {1, 2, 3, 4, 6, 7, 9, 10} : IsDigit(s[i])

\* pd.to_datetime on one cell: None and the empty str give NaT, a calendar date
\* written YYYY-MM-DD its Timestamp; any other str makes to_datetime raise
\* (k = "raise").  Other date notations pandas can read are not modelled.
to_datetime(x) ==
  IF x.k = "none" \/ (x.k = "str" /\ x.s = <<>>) THEN NaT
  ELSE IF x.k = "str" /\ IsoShape(x.s)
       THEN LET y == ParseDigits(SubSeq(x.s, 1, 4), 0)
                m == ParseDigits(SubSeq(x.s, 6, 7), 0)
                d == ParseDigits(SubSeq(x.s, 9, 10), 0)
            IN  IF m >= 1 /\ m <= 12 /\ d >= 1 /\ d <= DaysInMonth(y, m)
                THEN Timestamp(days_from_civil(y, m, d))
                ELSE [NaT EXCEPT !.k = "raise"]
  ELSE [NaT EXCEPT !.k = "raise"]

\* Timestamp.strftime('%Y-%m-%d')
strftime(z) ==
  LET c == civil_from_days(z)
  IN  FormatDigits(c.y, 4) \o <<"-">> \o FormatDigits(c.m, 2) \o <<"-">> \o FormatDigits(c.d, 2)

\* Monday of the week of day z (1970-01-01 was a Thursday); Period 'W' is 'W-SUN',
\* the week from Monday to Sunday
week_start(z) == z - ((z + 3) % 7)

\* str(Period): "start/end"
period_str(start) == strftime(start) \o <<"/">> \o strftime(start + 6)

-----------------------------------------------------------------------------
(* process_entries: a DataFrame is the sequence of its rows *)

\* [f(s[1]), ..., f(s[n])] for the rows of a frame
MapRows(f(_), df) == [i \in 1..Len(df) |-> f(df[i])]

\* the rows of df that satisfy keep, in order
RECURSIVE FilterRows(_, _)
FilterRows(keep(_), df) ==
  IF df = <<>> THEN <<>>
  ELSE IF keep(Head(df)) THEN <<Head(df)>> \o FilterRows(keep, Tail(df))
  ELSE FilterRows(keep, Tail(df))

\* pd.notna
notna(x) == x.k \notin {"none", "nan", "nat"}

\* df = pd.DataFrame(entries): a new frame holding the entries' values; a key an
\* entry lacks is None/NaN in its row
DataFrame(es) ==
  [i \in 1..Len(es) |->
     [date |-> es[i].date, app |-> es[i].app, time_minutes |-> es[i].time_minutes,
      category |-> es[i].category, pickups |-> es[i].pickups]]

\* df['date'] = pd.to_datetime(df['date'])
parse_date(row) == [row EXCEPT !.date = to_datetime(row.date)]

\* df['time_minutes'] = pd.to_numeric(df['time_minutes'], errors='coerce')
coerce_time(row) == [row EXCEPT !.time_minutes = to_numeric(row.time_minutes)]

\* the lambda of df.apply: row['category'] if pd.notna(row.get('category'))
\* else auto_categorize_app(row['app'])
row_category(row) ==
  IF notna(row.category) THEN row.category ELSE Text(auto_categorize_app(row.app.s))

\* auto_categorize_app raises AttributeError when app is not a str (None.lower())
category_raises(row) == ~notna(row.category) /\ row.app.k # "str"

set_category(row) == [row EXCEPT !.category = row_category(row)]

\* row_pickups without the "at least 1 pickup" assignment of line 107
row_pickups_filled_only(row) == IF notna(row.pickups) THEN row.pickups.n ELSE 0

\* df['pickups'].fillna(0).astype(int), then
\* df.loc[(df['time_minutes'] > 0) & (df['pickups'] == 0), 'pickups'] = 1
row_pickups(row) ==
  LET filled == IF notna(row.pickups) THEN row.pickups.n ELSE 0
      positive == \/ row.time_minutes.k = "num" /\ row.time_minutes.n > 0
                  \/ row.time_minutes.k = "inf"
  IN  IF positive /\ filled = 0 THEN 1 ELSE filled

set_pickups(row) == [row EXCEPT !.pickups = Num(row_pickups(row))]

\* df['time_hours'] = df['time_minutes'] / 60.0   (kept in 1/60 hour; NaN stays NaN)
add_time_hours(row) ==
  [date |-> row.date, app |-> row.app, time_minutes |-> row.time_minutes,
   category |-> row.category, pickups |-> row.pickups, time_hours |-> row.time_minutes]

\* df.dropna(subset=['date', 'app', 'time_minutes']) keeps the rows where all three are set
row_valid(row) == notna(row.date) /\ notna(row.app) /\ notna(row.time_minutes)

\* The frame process_entries returns, when it does not raise
process_frame(es) ==
  LET dated == MapRows(parse_date, DataFrame(es))
      timed == MapRows(coerce_time, dated)
      categorized == MapRows(set_category, timed)
      picked == MapRows(set_pickups, categorized)
      houred == MapRows(add_time_hours, picked)
  IN  FilterRows(row_valid, houred)

\* process_entries with the pickups default written into the caller's entries
\* instead of into a column of the copy
process_entries_in_place(es) ==
  IF es = <<>> THEN [raised |-> "", df |-> <<>>, entries |-> es]
  ELSE IF \E i \in 1..Len(es) : to_datetime(es[i].date).k = "raise"
       THEN [raised |-> "ValueError", df |-> <<>>, entries |-> es]
  ELSE IF \E i \in 1..Len(es) : category_raises(DataFrame(es)[i])
       THEN [raised |-> "AttributeError", df |-> <<>>, entries |-> es]
  ELSE [raised |-> "", df |-> process_frame(es),
        entries |-> [i \in 1..Len(es) |->
                       [es[i] EXCEPT !.pickups = Num(row_pickups(coerce_time(es[i])))]]]

\* process_entries(entries).  raised: the exception that ends the call ("" when it
\* returns); df: the frame returned; entries: the caller's list as the call leaves it
\* (every assignment of process_entries goes to df, a copy).
process_entries(es) ==
  IF es = <<>> THEN [raised |-> "", df |-> <<>>, entries |-> es]
  ELSE IF \E i \in 1..Len(es) : to_datetime(es[i].date).k = "raise"
       THEN [raised |-> "ValueError", df |-> <<>>, entries |-> es]
  ELSE IF \E i \in 1..Len(es) : category_raises(DataFrame(es)[i])
       THEN [raised |-> "AttributeError", df |-> <<>>, entries |-> es]
  ELSE [raised |-> "", df |-> process_frame(es), entries |-> es]

-----------------------------------------------------------------------------
(* calculate_metrics *)

\* head(10)
TopAppsLimit == 10

Min(S) == CHOOSE x \in S : \A y \in S : x <= y

\* sorted(S) for a set of integers
RECURSIVE SortedInts(_)
SortedInts(S) == IF S = {} THEN <<>> ELSE <<Min(S)>> \o SortedInts(S \ {Min(S)})

\* sorted(S) for a set of str
RECURSIVE SortedStrs(_)
SortedStrs(S) ==
  IF S = {} THEN <<>>
  ELSE LET m == CHOOSE x \in S : \A y \in S : y = x \/ StrLess(x, y)
       IN  <<m>> \o SortedStrs(S \ {m})

\* df[col].sum() over the rows that satisfy sel; col gives the row's number
RECURSIVE SumWhere(_, _, _)
SumWhere(col(_), sel(_), df) ==
  IF df = <<>> THEN 0
  ELSE (IF sel(Head(df)) THEN col(Head(df)) ELSE 0) + SumWhere(col, sel, Tail(df))

col_time_minutes(row) == row.time_minutes.n
col_time_hours(row) == row.time_hours.n
\* col_pickups that counts one pickup for every row
col_pickups_one_per_row(row) == 1

col_pickups(row) == row.pickups.n
all_rows(row) == TRUE

\* sort_values(ascending=False) of a groupby result: s is in key order.  Rows of
\* equal value are kept in that order, as pandas leaves them when the sort it runs
\* on the reversed values is stable; the order of the values is the same otherwise.
\* sort_values_desc that leaves the groupby result in key order
sort_values_key_order(s) == s

RECURSIVE sort_values_desc(_)
sort_values_desc(s) ==
  IF s = <<>> THEN <<>>
  ELSE LET i == CHOOSE j \in 1..Len(s) :
                  /\ \A l \in 1..Len(s) : s[l].hours <= s[j].hours
                  /\ \A l \in 1..(j - 1) : s[l].hours < s[j].hours
       IN  <<s[i]>> \o sort_values_desc(SubSeq(s, 1, i - 1) \o SubSeq(s, i + 1, Len(s)))

\* head(n)
head(s, n) == SubSeq(s, 1, IF Len(s) < n THEN Len(s) ELSE n)

\* df.groupby('category')['time_hours'].sum().to_dict(), each value rounded to 2 places
category_breakdown(df) ==
  [c \in {df[i].category.t : i \in 1..Len(df)} |->
     LET in_c(row) == row.category.t = c
     IN  RoundHours(SumWhere(col_time_hours, in_c, df))]

\* df.groupby('date').agg({'time_hours': 'sum', 'pickups': 'sum'}), date as '%Y-%m-%d'
daily_totals(df) ==
  LET days == SortedInts({df[i].date.n : i \in 1..Len(df)})
  IN  [i \in 1..Len(days) |->
         LET on_day(row) == row.date.n = days[i]
         IN  [date |-> strftime(days[i]),
              time_hours |-> SumWhere(col_time_hours, on_day, df),
              pickups |-> SumWhere(col_pickups, on_day, df)]]

\* df['week'] = df['date'].dt.to_period('W'): a column added to the caller's frame
add_week(row) ==
  [date |-> row.date, app |-> row.app, time_minutes |-> row.time_minutes,
   category |-> row.category, pickups |-> row.pickups, time_hours |-> row.time_hours,
   week |-> week_start(row.date.n)]

\* df.groupby('week').agg(...), week as str, renamed to period
weekly_totals(df) ==
  LET weeks == SortedInts({week_start(df[i].date.n) : i \in 1..Len(df)})
  IN  [i \in 1..Len(weeks) |->
         LET in_week(row) == week_start(row.date.n) = weeks[i]
         IN  [period |-> period_str(weeks[i]),
              time_hours |-> SumWhere(col_time_hours, in_week, df),
              pickups |-> SumWhere(col_pickups, in_week, df)]]

\* df.groupby('app')['time_hours'].sum(): one row per app, in key order
app_totals(df) ==
  LET apps == SortedStrs({df[i].app.s : i \in 1..Len(df)})
  IN  [i \in 1..Len(apps) |->
         LET of_app(row) == row.app.s = apps[i]
         IN  [app |-> apps[i], hours |-> SumWhere(col_time_hours, of_app, df)]]

\* ....sort_values(ascending=False).head(10), each value rounded to 2 places
top_apps(df) ==
  LET top == head(sort_values_desc(app_totals(df)), TopAppsLimit)
  IN  [i \in 1..Len(top) |-> [app |-> top[i].app, hours |-> RoundHours(top[i].hours)]]

\* is_social_media with another spelling of the category
is_social_media_misspelt(row) == row.category.t = "Social media"

is_social_media(row) == row.category.t = "Social Media"

\* The dict calculate_metrics returns.  Hour values are in 1/100 hour and
\* avg_pickups_per_day in 1/100 pickup (both are round(x, 2)); the time_hours of
\* daily_totals and weekly_totals are not rounded and stay in 1/60 hour.
calculate_metrics(df) ==
  IF df = <<>> THEN
    [total_screen_time_hours |-> 0,
     total_screen_time_minutes |-> 0,
     doomscroll_hours |-> 0,
     total_pickups |-> 0,
     avg_pickups_per_day |-> 0,
     days_tracked |-> 0,
     category_breakdown |-> <<>>,
     daily_totals |-> <<>>,
     weekly_totals |-> <<>>]
  ELSE
    LET total_minutes == SumWhere(col_time_minutes, all_rows, df)
        doomscroll == SumWhere(col_time_hours, is_social_media, df)
        total_pickups == SumWhere(col_pickups, all_rows, df)
        unique_days == Cardinality({df[i].date.n : i \in 1..Len(df)})
    IN  [total_screen_time_hours |-> RoundHours(total_minutes),
         total_screen_time_minutes |-> total_minutes,
         doomscroll_hours |-> RoundHours(doomscroll),
         total_pickups |-> total_pickups,
         avg_pickups_per_day |->
           IF unique_days > 0 THEN RoundHalfEven(total_pickups * 100, unique_days) ELSE 0,
         days_tracked |-> unique_days,
         category_breakdown |-> category_breakdown(df),
         daily_totals |-> daily_totals(df),
         weekly_totals |-> weekly_totals(df),
         top_apps |-> top_apps(df)]

\* the caller's frame after calculate_metrics(df): the empty frame is returned
\* before line 374, any other frame has got the week column
frame_after_metrics(df) == IF df = <<>> THEN df ELSE MapRows(add_week, df)

-----------------------------------------------------------------------------
(* calculate_chronic_score *)

\* A quotient num/den (den > 0) that the code holds as a float
Quot(num, den) == [num |-> num, den |-> den]
QuotLt(q, x) == q.num < x * q.den
QuotGe(q, x) == q.num >= x * q.den

\* metrics['total_screen_time_hours'] / metrics['days_tracked'], in hours
avg_hours_per_day(m) == Quot(m.total_screen_time_hours, 100 * m.days_tracked)

\* (doomscroll_hours / total_screen_time_hours) * 100 if total_screen_time_hours > 0 else 0
doomscroll_ratio(m) ==
  IF m.total_screen_time_hours > 0
  THEN Quot(m.doomscroll_hours * 100, m.total_screen_time_hours)
  ELSE Quot(0, 1)

\* The float a field holds that round(x, 2) has set to h / 100: the one nearest to it
hours_float(h) == FloatDiv(FloatOfInt(h), FloatOfInt(100))

\* (doomscroll_hours / total_screen_time_hours) * 100 as the floats give it, for
\* doomscroll_hours > 0
doomscroll_ratio_float(m) ==
  FloatMul(FloatDiv(hours_float(m.doomscroll_hours), hours_float(m.total_screen_time_hours)),
           FloatOfInt(100))

\* doomscroll_ratio < x, for a whole x > 0.  The float differs from the exact
\* quotient by less than 1 part in 10^15, and an exact quotient that is not x is
\* further from it than that (by 1 / total_screen_time_hours at least, in 1/100
\* percent), so the floats decide only where the exact quotient is x.
doomscroll_ratio_lt(m, x) ==
  LET r == doomscroll_ratio(m)
  IN  IF r.num = x * r.den
      THEN FloatLess(doomscroll_ratio_float(m), FloatOfInt(x))
      ELSE QuotLt(r, x)

\* metrics['avg_pickups_per_day'], in pickups (the field is in 1/100 pickup)
avg_pickups(m) == Quot(m.avg_pickups_per_day, 100)

\* time_score with the two highest scores exchanged
time_score_swapped(m) ==
  LET a == avg_hours_per_day(m)
  IN  IF QuotLt(a, 2) THEN 0
      ELSE IF QuotLt(a, 4) THEN 10
      ELSE IF QuotLt(a, 6) THEN 20
      ELSE IF QuotLt(a, 8) THEN 40
      ELSE 30

time_score(m) ==
  LET a == avg_hours_per_day(m)
  IN  IF QuotLt(a, 2) THEN 0
      ELSE IF QuotLt(a, 4) THEN 10
      ELSE IF QuotLt(a, 6) THEN 20
      ELSE IF QuotLt(a, 8) THEN 30
      ELSE 40

\* the if-chain on doomscroll_ratio; below[x] is doomscroll_ratio < x
doomscroll_steps(below) ==
  IF below[20] THEN 0
  ELSE IF below[40] THEN 10
  ELSE IF below[60] THEN 20
  ELSE 30

doomscroll_score(m) == doomscroll_steps([x \in {20, 40, 60} |-> doomscroll_ratio_lt(m, x)])

pickup_score(m) ==
  LET p == avg_pickups(m)
  IN  IF QuotLt(p, 50) THEN 0
      ELSE IF QuotLt(p, 100) THEN 10
      ELSE IF QuotLt(p, 150) THEN 20
      ELSE 30

\* level_of with <= for the < of the first comparison
level_of_inclusive(total_score) ==
  IF total_score <= 20 THEN
    [level |-> "Casually Online",
     description |-> "You have a healthy relationship with your devices! Keep it up."]
  ELSE IF total_score < 40 THEN
    [level |-> "Moderately Online",
     description |-> "You're spending a reasonable amount of time online. Some small adjustments could help."]
  ELSE IF total_score < 60 THEN
    [level |-> "Pretty Online",
     description |-> "You're spending quite a bit of time on your devices. Consider setting some boundaries."]
  ELSE IF total_score < 80 THEN
    [level |-> "Very Online",
     description |-> "You're spending a lot of time online. It might be time to reassess your digital habits."]
  ELSE
    [level |-> "Chronically Online",
     description |-> "You're spending excessive time online. Consider implementing significant changes to your digital routine."]

level_of(total_score) ==
  IF total_score < 20 THEN
    [level |-> "Casually Online",
     description |-> "You have a healthy relationship with your devices! Keep it up."]
  ELSE IF total_score < 40 THEN
    [level |-> "Moderately Online",
     description |-> "You're spending a reasonable amount of time online. Some small adjustments could help."]
  ELSE IF total_score < 60 THEN
    [level |-> "Pretty Online",
     description |-> "You're spending quite a bit of time on your devices. Consider setting some boundaries."]
  ELSE IF total_score < 80 THEN
    [level |-> "Very Online",
     description |-> "You're spending a lot of time online. It might be time to reassess your digital habits."]
  ELSE
    [level |-> "Chronically Online",
     description |-> "You're spending excessive time online. Consider implementing significant changes to your digital routine."]

\* the dict returned for the three sub-scores
score_dict(m, time, doomscroll, pickup) ==
  LET total_score == time + doomscroll + pickup
      a == avg_hours_per_day(m)
      r == doomscroll_ratio(m)
  IN  [score |-> total_score,
       level |-> level_of(total_score).level,
       description |-> level_of(total_score).description,
       breakdown |->
         [time_score |-> time,
          doomscroll_score |-> doomscroll,
          pickup_score |-> pickup,
          avg_hours_per_day |-> RoundHalfEven(a.num * 100, a.den),
          doomscroll_percentage |-> RoundHalfEven(r.num * 10, r.den)]]

\* breakdown: avg_hours_per_day is round(x, 2), in 1/100 hour; doomscroll_percentage
\* is round(x, 1), in 1/10 percent
calculate_chronic_score(m) ==
  IF m.days_tracked = 0 THEN
    [score |-> 0, level |-> "Unknown", description |-> "No data available",
     breakdown |-> <<>>]
  ELSE
    score_dict(m, time_score(m), doomscroll_score(m), pickup_score(m))

-----------------------------------------------------------------------------
(* generate_tips *)

\* A tip: title and description are the f-string templates; app is the app name and
\* numbers the values the f-strings interpolate, each rounded as its format says
\* (:.1f in 1/10, :.0f in units)
Tip(title, priority, cat, app, numbers) ==
  [title |-> title, priority |-> priority, category |-> cat, app |-> app, numbers |-> numbers]

\* priority_order with the ranks of high and medium exchanged
priority_order_swapped(priority) ==
  CASE priority = "high" -> 1
    [] priority = "medium" -> 0
    [] priority = "low" -> 2
    [] OTHER -> 3

\* priority_order.get(x['priority'], 3)
priority_order(priority) ==
  CASE priority = "high" -> 0
    [] priority = "medium" -> 1
    [] priority = "low" -> 2
    [] OTHER -> 3

\* list.sort(key=...): stable, ascending by key
RECURSIVE sort_by_priority(_)
sort_by_priority(tips) ==
  IF tips = <<>> THEN <<>>
  ELSE LET key(i) == priority_order(tips[i].priority)
           i == CHOOSE j \in 1..Len(tips) :
                  /\ \A l \in 1..Len(tips) : key(j) <= key(l)
                  /\ \A l \in 1..(j - 1) : key(j) < key(l)
       IN  <<tips[i]>> \o sort_by_priority(SubSeq(tips, 1, i - 1) \o SubSeq(tips, i + 1, Len(tips)))

\* dict.get(key, 0) on category_breakdown
breakdown_get(m, c) ==
  IF c \in DOMAIN m.category_breakdown THEN m.category_breakdown[c] ELSE 0

\* metrics.get('top_apps'): the key is there and the dict is not empty
has_top_apps(m) == "top_apps" \in DOMAIN m /\ m.top_apps # <<>>

\* the tips in the order they are appended, before the sort
appended_tips(m) ==
  LET avg == IF m.days_tracked > 0 THEN avg_hours_per_day(m) ELSE Quot(0, 1)
      pct == doomscroll_ratio(m)
      social_hours == breakdown_get(m, "Social Media")
      productivity_hours == breakdown_get(m, "Productivity")
      tip1 == IF QuotGe(avg, 6)
              THEN <<Tip("Set Daily Screen Time Limits", "high", "general", <<>>,
                         <<RoundHalfEven(avg.num * 10, avg.den)>>)>>
              ELSE <<>>
      tip2 == IF ~doomscroll_ratio_lt(m, 40)
              THEN <<Tip("Reduce Social Media Consumption", "high", "social_media", <<>>,
                         <<RoundHalfEven(pct.num, pct.den),
                           RoundHalfEven(m.doomscroll_hours, 10)>>)>>
              ELSE <<>>
      tip3 == IF QuotGe(avg_pickups(m), 100)
              THEN <<Tip("Reduce Phone Pickups", "high", "pickups", <<>>,
                         <<RoundHalfEven(m.avg_pickups_per_day, 100)>>)>>
              ELSE <<>>
      tip4 == IF has_top_apps(m) /\ m.top_apps[1].hours >= 2 * 100
              THEN <<Tip("Limit Time on {top_app}", "medium", "specific_app",
                         m.top_apps[1].app, <<RoundHalfEven(m.top_apps[1].hours, 10)>>)>>
              ELSE <<>>
      tip5 == IF QuotGe(avg, 4)
              THEN <<Tip("Create Phone-Free Zones", "medium", "boundaries", <<>>, <<>>)>>
              ELSE <<>>
      tip6 == IF social_hours > 0 /\ productivity_hours > 0
                 /\ social_hours > productivity_hours * 2
              THEN <<Tip("Balance Entertainment with Productivity", "medium", "balance", <<>>,
                         <<RoundHalfEven(social_hours, 10),
                           RoundHalfEven(productivity_hours, 10)>>)>>
              ELSE <<>>
      tip7 == <<Tip("Practice Mindful Phone Use", "low", "mindfulness", <<>>, <<>>)>>
      tip8 == <<Tip("Review Your Progress Weekly", "low", "tracking", <<>>, <<>>)>>
  IN  tip1 \o tip2 \o tip3 \o tip4 \o tip5 \o tip6 \o tip7 \o tip8

generate_tips(m, df) ==
  IF df = <<>> THEN <<>> ELSE sort_by_priority(appended_tips(m))

-----------------------------------------------------------------------------
(* analyze_entries *)

NotCalled == [status |-> "none"]
Returned(v) == [status |-> "returned", value |-> v]
Raised(e) == [status |-> "raised", exception |-> e]

\* int(total_minutes) of calculate_metrics raises OverflowError when the sum of
\* time_minutes is infinite: a row's time is float('inf') (no time is negative
\* infinity or, after dropna, NaN)
total_minutes_infinite(df) == \E i \in 1..Len(df) : df[i].time_minutes.k = "inf"

\* ret: what the call returns or raises; frame: its local df when it ends;
\* entries: the caller's list after the call
\* the dict analyze_entries returns for the metrics m of the frame
analysis(m, frame) ==
  [metrics |-> m,
   chronic_score |-> calculate_chronic_score(m),
   tips |-> generate_tips(m, frame),
   processed_entries_count |-> Len(frame)]

\* analyze_entries after process_entries has ended as p
analyze_processed(p) ==
  IF p.raised # "" THEN [ret |-> Raised(p.raised), frame |-> <<>>, entries |-> p.entries]
  ELSE IF total_minutes_infinite(p.df)
       THEN [ret |-> Raised("OverflowError"), frame |-> frame_after_metrics(p.df),
             entries |-> p.entries]
  ELSE [ret |-> Returned(analysis(calculate_metrics(p.df), frame_after_metrics(p.df))),
        frame |-> frame_after_metrics(p.df),
        entries |-> p.entries]

analyze_entries(es) == analyze_processed(process_entries(es))

-----------------------------------------------------------------------------
(* index.py: the endpoints.  A user id is a string, "" for a user_id that   *)
(* is None or left out; the dict _storage is a function from the user ids   *)
(* that are its keys to the lists of entries.                               *)

\* validate_date: date.fromisoformat(v) returns for a str YYYY-MM-DD that names a
\* calendar date of the years 1 to 9999
validate_date(v) ==
  /\ v.k = "str"
  /\ IsoShape(v.s)
  /\ LET y == ParseDigits(SubSeq(v.s, 1, 4), 0)
         m == ParseDigits(SubSeq(v.s, 6, 7), 0)
         d == ParseDigits(SubSeq(v.s, 9, 10), 0)
     IN  y >= 1 /\ m >= 1 /\ m <= 12 /\ d >= 1 /\ d <= DaysInMonth(y, m)

\* the value of a float field: a number (infinity is one) is taken, a str of
\* decimal digits is converted, anything else is refused (NaN here)
float_field(x) ==
  IF x.k = "num" \/ x.k = "inf" THEN x
  ELSE IF x.k = "str" /\ x.s # <<>> /\ (\A i \in 1..Len(x.s) : IsDigit(x.s[i]))
       THEN Num(ParseDigits(x.s, 0))
  ELSE NaN

\* ScreenTimeEntry accepts e: date validated, app a str of min_length 1,
\* time_minutes a float gt 0, category a str or None, pickups an int ge 0 or None
ScreenTimeEntry(e) ==
  /\ validate_date(e.date)
  /\ e.app.k = "str" /\ Len(e.app.s) >= 1
  /\ LET t == float_field(e.time_minutes) IN t.k = "inf" \/ (t.k = "num" /\ t.n > 0)
  /\ e.category.k \in {"none", "str"}
  /\ e.pickups.k = "none" \/ (e.pickups.k = "num" /\ e.pickups.n >= 0)

\* EntriesRequest accepts the body: entries of min_length 1, each a ScreenTimeEntry
EntriesRequest(body) ==
  /\ Len(body.entries) >= 1
  /\ \A i \in 1..Len(body.entries) : ScreenTimeEntry(body.entries[i])

\* entry.model_dump() of a validated entry
model_dump(e) == [e EXCEPT !.time_minutes = float_field(e.time_minutes)]

\* _storage[user_id] where the handlers read it (no entries when the key is absent)
stored_entries(storage, user_id) ==
  IF user_id \in DOMAIN storage THEN storage[user_id] ELSE <<>>

\* storage after storage[user_id] = es
set_entries(storage, user_id, es) ==
  [u \in DOMAIN storage \cup {user_id} |-> IF u = user_id THEN es ELSE storage[u]]

\* a response: its HTTP status, the total_entries of its body (0 when the body has
\* none) and the analysis in it (NotCalled when the body has none)
Response(status_code, total_entries, analytics) ==
  [status_code |-> status_code, total_entries |-> total_entries, analytics |-> analytics]

\* request.user_id or "default_user"
user_id_or_default(user_id) == IF user_id = "" THEN "default_user" ELSE user_id

\* the response of a handler whose analysis ended as ret, with the status it gives
\* an exception, and _storage as the handler leaves it
analyzed_response(stored, user_id, ret, error_status) ==
  [storage |-> stored,
   response |-> IF ret.status = "returned"
                THEN Response(200, Len(stored[user_id]), ret)
                ELSE Response(error_status, 0, ret)]

\* the handler after analyze_entries(_storage[user_id]) has ended as r
after_analysis(storage, user_id, r, error_status) ==
  analyzed_response(set_entries(storage, user_id, r.entries), user_id, r.ret, error_status)

\* submit_entries that replaces the stored entries by the submitted ones
submit_entries_replace(storage, body) ==
  IF ~EntriesRequest(body) THEN [storage |-> storage, response |-> Response(422, 0, NotCalled)]
  ELSE after_analysis(storage, user_id_or_default(body.user_id),
                      analyze_entries([i \in 1..Len(body.entries) |-> model_dump(body.entries[i])]),
                      400)

\* _storage[user_id].extend(entries_dict); result = analyze_entries(_storage[user_id])
extend_and_analyze(storage, user_id, entries_dict) ==
  after_analysis(storage, user_id,
                 analyze_entries(stored_entries(storage, user_id) \o entries_dict), 400)

\* POST /api/entries.  A body the models refuse is answered with 422 before the
\* handler runs.  The handler extends _storage[user_id] by the entries, then
\* analyzes the whole list; any exception is answered with 400.
submit_entries(storage, body) ==
  IF ~EntriesRequest(body) THEN [storage |-> storage, response |-> Response(422, 0, NotCalled)]
  ELSE extend_and_analyze(storage, user_id_or_default(body.user_id),
                          [i \in 1..Len(body.entries) |-> model_dump(body.entries[i])])

\* GET /api/analytics: "No entries found" without an analysis when the user has no
\* entries, the analysis of the stored list otherwise; any exception is answered
\* with 500
get_analytics(storage, user_id) ==
  IF user_id \notin DOMAIN storage \/ Len(storage[user_id]) = 0
  THEN [storage |-> storage, response |-> Response(200, 0, NotCalled)]
  ELSE after_analysis(storage, user_id, analyze_entries(storage[user_id]), 500)

\* DELETE /api/entries
clear_entries(storage, user_id) ==
  [storage |-> IF user_id \in DOMAIN storage THEN set_entries(storage, user_id, <<>>) ELSE storage,
   response |-> Response(200, 0, NotCalled)]

-----------------------------------------------------------------------------
(* Inputs of analyze_entries *)

\* a raw entry (a dict of the entries list); None stands for a key that is absent or null
Entry(date, app, time_minutes, cat, pickups) ==
  [date |-> date, app |-> app, time_minutes |-> time_minutes, category |-> cat,
   pickups |-> pickups]

Date_2024_01_15 == Str(<<"2", "0", "2", "4", "-", "0", "1", "-", "1", "5">>)
Date_2024_01_16 == Str(<<"2", "0", "2", "4", "-", "0", "1", "-", "1", "6">>)
Date_2024_01_22 == Str(<<"2", "0", "2", "4", "-", "0", "1", "-", "2", "2">>)
Date_2024_13_45 == Str(<<"2", "0", "2", "4", "-", "1", "3", "-", "4", "5">>)

App_Instagram == Str(<<"I", "n", "s", "t", "a", "g", "r", "a", "m">>)
App_Gmail == Str(<<"G", "m", "a", "i", "l">>)
App_Netflix == Str(<<"N", "e", "t", "f", "l", "i", "x">>)
App_TikTok == Str(<<"T", "i", "k", "T", "o", "k">>)
App_UnknownApp == Str(<<"U", "n", "k", "n", "o", "w", "n", "A", "p", "p">>)
App_CustomApp == Str(<<"C", "u", "s", "t", "o", "m", "A", "p", "p">>)
App_SomeApp == Str(<<"S", "o", "m", "e", "A", "p", "p">>)
App_Slack == Str(<<"S", "l", "a", "c", "k">>)

\* The entries the inputs are built from: well-formed ones of several apps, days and
\* weeks, with and without category and pickups, and malformed ones (a date that is
\* no calendar date, a missing date, a time that is no number, a missing app).
\* A time that is a number is >= 0 (ScreenTimeEntry asks for time_minutes > 0).
\* The last two entries make a day of 10.05 hours with 4.02 hours on social media.
EntryPool ==
  { Entry(Date_2024_01_15, App_Instagram, Num(480), None, Num(160)),
    Entry(Date_2024_01_15, App_Gmail, Num(30), None, Num(5)),
    Entry(Date_2024_01_16, App_Netflix, Num(120), None, None),
    Entry(Date_2024_01_15, App_TikTok, Num(90), None, Num(0)),
    Entry(Date_2024_01_16, App_UnknownApp, Num(0), None, None),
    Entry(Date_2024_01_15, App_CustomApp, Num(45), Text("Productivity"), Num(60)),
    Entry(Date_2024_01_16, App_SomeApp, Num(10), Text(""), Num(2)),
    Entry(Date_2024_01_16, App_Instagram, Num(200), None, Num(60)),
    Entry(Date_2024_01_22, App_Netflix, Num(300), Text("Entertainment"), Num(110)),
    Entry(Date_2024_01_15, App_Gmail, Num(130), None, Num(40)),
    Entry(Date_2024_01_22, Str(<<>>), Str(<<"2", "4", "0">>), Text("Focus"), None),
    Entry(Date_2024_13_45, App_Gmail, Num(30), None, Num(5)),
    Entry(Date_2024_01_15, App_Slack, Str(<<"a", "b", "c">>), None, Num(3)),
    Entry(None, App_Slack, Num(60), None, None),
    Entry(Date_2024_01_16, None, Num(20), None, Num(1)),
    Entry(Date_2024_01_15, None, Num(20), Text("Gaming"), Num(1)),
    Entry(Date_2024_01_22, App_Instagram, Num(241), None, None),
    Entry(Date_2024_01_22, App_Gmail, Num(362), None, None) }

\* longest entries list passed to analyze_entries
MaxEntries == 2

\* calls of analyze_entries made on one list
MaxCalls == 2

RECURSIVE SeqsUpTo(_, _)
SeqsUpTo(S, n) ==
  IF n = 0 THEN {<<>>}
  ELSE LET shorter == SeqsUpTo(S, n - 1)
       IN  shorter \cup {Append(q, x) : q \in {r \in shorter : Len(r) = n - 1}, x \in S}

Inputs == SeqsUpTo(EntryPool, MaxEntries)

Date_2024_01_17 == Str(<<"2", "0", "2", "4", "-", "0", "1", "-", "1", "7">>)
Date_2024_01_18 == Str(<<"2", "0", "2", "4", "-", "0", "1", "-", "1", "8">>)
Date_2024_01_19 == Str(<<"2", "0", "2", "4", "-", "0", "1", "-", "1", "9">>)

App_Twitter == Str(<<"T", "w", "i", "t", "t", "e", "r">>)
App_Spotify == Str(<<"S", "p", "o", "t", "i", "f", "y">>)
App_YouTube == Str(<<"Y", "o", "u", "T", "u", "b", "e">>)
App_Reddit == Str(<<"R", "e", "d", "d", "i", "t">>)
App_Notion == Str(<<"N", "o", "t", "i", "o", "n">>)
App_WhatsApp == Str(<<"W", "h", "a", "t", "s", "A", "p", "p">>)

\* test_entries, "a week of manual entries": 14 entries of 13 apps on 5 days
test_entries ==
  << Entry(Date_2024_01_15, App_Instagram, Num(120), None, Num(15)),
     Entry(Date_2024_01_15, App_TikTok, Num(90), None, Num(20)),
     Entry(Date_2024_01_15, App_Gmail, Num(30), None, Num(5)),
     Entry(Date_2024_01_15, App_Netflix, Num(60), None, Num(2)),
     Entry(Date_2024_01_16, App_Instagram, Num(150), None, Num(18)),
     Entry(Date_2024_01_16, App_Twitter, Num(45), None, Num(12)),
     Entry(Date_2024_01_16, App_Slack, Num(60), None, Num(8)),
     Entry(Date_2024_01_16, App_Spotify, Num(120), None, Num(3)),
     Entry(Date_2024_01_17, App_YouTube, Num(180), None, Num(10)),
     Entry(Date_2024_01_17, App_Reddit, Num(90), None, Num(25)),
     Entry(Date_2024_01_17, App_Notion, Num(45), None, Num(4)),
     Entry(Date_2024_01_18, App_WhatsApp, Num(60), None, Num(8)),
     Entry(Date_2024_01_18, App_UnknownApp, Num(30), None, Num(2)),
     Entry(Date_2024_01_19, App_CustomApp, Num(45), Text("Productivity"), Num(5)) >>

\* es with the time_minutes of its i-th entry replaced by t (i = 0: es itself)
WithTime(es, i, t) ==
  [j \in 1..Len(es) |->
     IF j = i THEN Entry(es[j].date, es[j].app, Num(t), es[j].category, es[j].pickups)
     ELSE es[j]]

\* minutes put in the place of an entry's time: ten hours, and a time that is no
\* whole number of 1/100 hours
SampleTimes == {600, 68}

\* The lists of consecutive test entries, as they are and with the time of one
\* entry replaced
SampleInputs ==
  {WithTime(SubSeq(test_entries, a, b), i, t) :
     a \in 1..Len(test_entries), b \in 1..Len(test_entries),
     i \in 0..Len(test_entries), t \in SampleTimes}

-----------------------------------------------------------------------------
(* Requests to index.py *)

\* the user ids of the requests; "" is a submit without user_id
UserIds == {"default_user", "test_user"}
SubmitUserIds == {"", "test_user"}

\* the entries of the request bodies: accepted ones that can be analyzed, one whose
\* time_minutes is infinite (a float gt 0), and one whose date is refused
RequestEntries ==
  { <<Entry(Date_2024_01_15, App_Instagram, Num(480), None, Num(160))>>,
    <<Entry(Date_2024_01_15, App_Gmail, Num(30), None, Num(5)),
      Entry(Date_2024_01_16, App_Netflix, Str(<<"1", "2", "0">>), None, None)>>,
    <<Entry(Date_2024_01_16, App_TikTok, Inf, None, None)>>,
    <<Entry(Date_2024_13_45, App_Gmail, Num(30), None, Num(5))>> }

RequestBodies == {[entries |-> es, user_id |-> u] : es \in RequestEntries, u \in SubmitUserIds}

\* requests made to the endpoints
MaxRequests == 3

-----------------------------------------------------------------------------
(* Inputs of auto_categorize_app and of calculate_chronic_score *)

-----------------------------------------------------------------------------
(* Categorizer inputs: app names built from a few words, alone and in pairs *)

Words ==
  {
    (* Game *) <<"G", "a", "m", "e">>,
    (* Netflix *) <<"N", "e", "t", "f", "l", "i", "x">>,
    (* Nike Run *) <<"N", "i", "k", "e", " ", "R", "u", "n">>,
    (* Online *) <<"O", "n", "l", "i", "n", "e">>,
    (* NEWS *) <<"N", "E", "W", "S">>,
    (* Ted *) <<"T", "e", "d">>,
    (* Calm *) <<"C", "a", "l", "m">>,
    (* gmail *) <<"g", "m", "a", "i", "l">>,
    (* Zzz *) <<"Z", "z", "z">>
  }

AppNames == {<<>>} \cup Words \cup {a \o <<" ">> \o b : a \in Words, b \in Words}

\* the patterns of CATEGORY_PATTERNS, each taken as an app name
PatternNames ==
  UNION {{CATEGORY_PATTERNS[i].patterns[j] : j \in 1..Len(CATEGORY_PATTERNS[i].patterns)} :
           i \in 1..Len(CATEGORY_PATTERNS)}

\* most days tracked in a Metrics value given to calculate_chronic_score
MaxDays == 2

HoursGrid == {0, 199, 200, 400, 565, 600, 800, 1200, 1600}
DoomscrollGrid == {0, 100, 113, 160, 200, 400, 800}
PickupsGrid == {0, 4999, 5000, 10000, 15000}

\* a Metrics value with the given totals (hours in 1/100 hour, pickups in 1/100)
MetricsOf(total, doomscroll, pickups, days) ==
  [total_screen_time_hours |-> total,
   total_screen_time_minutes |-> (total * 60) \div 100,
   doomscroll_hours |-> doomscroll,
   total_pickups |-> (pickups * days) \div 100,
   avg_pickups_per_day |-> pickups,
   days_tracked |-> days,
   category_breakdown |-> <<>>,
   daily_totals |-> <<>>,
   weekly_totals |-> <<>>,
   top_apps |-> <<>>]

MetricsInputs ==
  {calculate_metrics(<<>>)} \cup
  {MetricsOf(h.total, h.doomscroll, p, n) :
     h \in {x \in [total : HoursGrid, doomscroll : DoomscrollGrid] : x.doomscroll <= x.total},
     p \in PickupsGrid, n \in 1..MaxDays}

-----------------------------------------------------------------------------
(* The calls *)

\* index.py as imported: _storage = {"default_user": []}, no request made
ApiStart ==
  /\ _storage = [u \in {"default_user"} |-> <<>>]
  /\ request = [op |-> "none", user_id |-> "", entries |-> <<>>]
  /\ response = Response(0, 0, NotCalled)
  /\ storage_before = [u \in {"default_user"} |-> <<>>]
  /\ accepted = [u \in UserIds |-> <<>>]
  /\ requests = 0

Init ==
  /\ entries \in Inputs
  /\ result = NotCalled
  /\ analyzed_df = <<>>
  /\ calls = 0
  /\ app_name = <<>>
  /\ category = NotCalled
  /\ metrics = NotCalled
  /\ chronic_score = NotCalled
  /\ prev_call = NotCalled
  /\ ApiStart

\* result = analyze_entries(entries)
Call_analyze_entries ==
  /\ calls < MaxCalls
  /\ \E r \in {analyze_entries(entries)} :
         /\ result' = r.ret
         /\ analyzed_df' = r.frame
         /\ entries' = r.entries
  /\ calls' = calls + 1
  /\ UNCHANGED <<app_name, category, metrics, chronic_score, prev_call,
               _storage, request, response, storage_before, accepted, requests>>

Next == Call_analyze_entries

Spec == Init /\ [][Next]_vars

InitSample ==
  /\ entries \in SampleInputs
  /\ result = NotCalled
  /\ analyzed_df = <<>>
  /\ calls = 0
  /\ app_name = <<>>
  /\ category = NotCalled
  /\ metrics = NotCalled
  /\ chronic_score = NotCalled
  /\ prev_call = NotCalled
  /\ ApiStart

\* analyze_entries called on the sample lists
SpecSample == InitSample /\ [][Next]_vars

InitCat ==
  /\ app_name \in AppNames
  /\ category = NotCalled
  /\ entries = <<>>
  /\ result = NotCalled
  /\ analyzed_df = <<>>
  /\ calls = 0
  /\ metrics = NotCalled
  /\ chronic_score = NotCalled
  /\ prev_call = NotCalled
  /\ ApiStart

\* category = auto_categorize_app(app_name)
Call_auto_categorize_app ==
  /\ category.status = "none"
  /\ category' = Returned(auto_categorize_app(app_name))
  /\ UNCHANGED <<app_name, entries, result, analyzed_df, calls, metrics, chronic_score, prev_call,
               _storage, request, response, storage_before, accepted, requests>>

NextCat == Call_auto_categorize_app

SpecCat == InitCat /\ [][NextCat]_vars

InitPattern ==
  /\ app_name \in PatternNames
  /\ category = NotCalled
  /\ entries = <<>>
  /\ result = NotCalled
  /\ analyzed_df = <<>>
  /\ calls = 0
  /\ metrics = NotCalled
  /\ chronic_score = NotCalled
  /\ prev_call = NotCalled
  /\ ApiStart

\* auto_categorize_app called on the patterns themselves
SpecPattern == InitPattern /\ [][NextCat]_vars

InitScore ==
  /\ metrics = NotCalled
  /\ chronic_score = NotCalled
  /\ prev_call = NotCalled
  /\ entries = <<>>
  /\ result = NotCalled
  /\ analyzed_df = <<>>
  /\ calls = 0
  /\ app_name = <<>>
  /\ category = NotCalled
  /\ ApiStart

\* chronic_score = calculate_chronic_score(m); prev_call keeps the call before it
Call_calculate_chronic_score ==
  /\ prev_call.status = "none"
  /\ \E m \in MetricsInputs :
       /\ metrics' = Returned(m)
       /\ chronic_score' = Returned(calculate_chronic_score(m))
  /\ prev_call' = IF chronic_score.status = "returned"
                  THEN Returned([metrics |-> metrics.value, chronic_score |-> chronic_score.value])
                  ELSE NotCalled
  /\ UNCHANGED <<entries, result, analyzed_df, calls, app_name, category,
               _storage, request, response, storage_before, accepted, requests>>

NextScore == Call_calculate_chronic_score

SpecScore == InitScore /\ [][NextScore]_vars

InitApi ==
  /\ entries = <<>>
  /\ result = NotCalled
  /\ analyzed_df = <<>>
  /\ calls = 0
  /\ app_name = <<>>
  /\ category = NotCalled
  /\ metrics = NotCalled
  /\ chronic_score = NotCalled
  /\ prev_call = NotCalled
  /\ ApiStart

\* POST /api/entries with a body
Call_submit_entries ==
  /\ requests < MaxRequests
  /\ \E body \in RequestBodies :
       \E out \in {submit_entries(_storage, body)}, user_id \in {user_id_or_default(body.user_id)} :
           /\ _storage' = out.storage
           /\ response' = out.response
           /\ request' = [op |-> "submit_entries", user_id |-> user_id, entries |-> body.entries]
           /\ accepted' = IF EntriesRequest(body)
                          THEN [accepted EXCEPT ![user_id] =
                                  @ \o [i \in 1..Len(body.entries) |-> model_dump(body.entries[i])]]
                          ELSE accepted
  /\ storage_before' = _storage
  /\ requests' = requests + 1
  /\ UNCHANGED core_vars

\* GET /api/analytics?user_id=...
Call_get_analytics ==
  /\ requests < MaxRequests
  /\ \E user_id \in UserIds :
       \E out \in {get_analytics(_storage, user_id)} :
           /\ _storage' = out.storage
           /\ response' = out.response
           /\ request' = [op |-> "get_analytics", user_id |-> user_id, entries |-> <<>>]
  /\ storage_before' = _storage
  /\ requests' = requests + 1
  /\ UNCHANGED <<accepted, entries, result, analyzed_df, calls, app_name, category, metrics,
                 chronic_score, prev_call>>

\* DELETE /api/entries?user_id=...
Call_clear_entries ==
  /\ requests < MaxRequests
  /\ \E user_id \in UserIds :
       \E out \in {clear_entries(_storage, user_id)} :
           /\ _storage' = out.storage
           /\ response' = out.response
           /\ request' = [op |-> "clear_entries", user_id |-> user_id, entries |-> <<>>]
           /\ accepted' = [accepted EXCEPT ![user_id] = <<>>]
  /\ storage_before' = _storage
  /\ requests' = requests + 1
  /\ UNCHANGED core_vars

NextApi == Call_submit_entries \/ Call_get_analytics \/ Call_clear_entries

SpecApi == InitApi /\ [][NextApi]_vars

-----------------------------------------------------------------------------
(* Properties of analyze_entries (specification Spec) *)

\* entry e is one process_entries keeps: its date is a calendar date, its time a
\* number, its app a str
WellFormed(e) ==
  to_datetime(e.date).k = "ts" /\ to_numeric(e.time_minutes).k = "num" /\ e.app.k = "str"

\* the entries of the input that are kept, in order: analyzed_df[i] is the
\* canonical record of KeptEntries[i]
KeptEntries == FilterRows(WellFormed, entries)

\* C1: analyze with the empty entry sequence does not fail and returns
\* processed_entries_count = 0, the zero-state Metrics (every number zero, every
\* collection empty: category_breakdown, daily_totals, weekly_totals and top_apps),
\* score 0 with level "Unknown", and no tips.
C1_EmptyInputZeroState ==
  (entries = <<>> /\ result.status # "none") =>
    /\ result.status = "returned"
    /\ result.value.processed_entries_count = 0
    /\ LET m == result.value.metrics
       IN  /\ m.total_screen_time_hours = 0
           /\ m.total_screen_time_minutes = 0
           /\ m.doomscroll_hours = 0
           /\ m.total_pickups = 0
           /\ m.avg_pickups_per_day = 0
           /\ m.days_tracked = 0
           /\ DOMAIN m.category_breakdown = {}
           /\ Len(m.daily_totals) = 0
           /\ Len(m.weekly_totals) = 0
           /\ "top_apps" \in DOMAIN m
           /\ Len(m.top_apps) = 0
    /\ result.value.chronic_score.score = 0
    /\ result.value.chronic_score.level = "Unknown"
    /\ Len(result.value.tips) = 0

\* C2: normalization never raises because of a malformed record: a record whose
\* date cannot be parsed or whose time_minutes is not numeric is dropped and every
\* other record of the input is retained (stated for inputs whose apps are all str).
C2_MalformedDroppedNotRaised ==
  (result.status # "none" /\ \A i \in 1..Len(entries) : entries[i].app.k = "str") =>
    /\ result.status = "returned"
    /\ result.value.processed_entries_count = Len(KeptEntries)

TimeOf(e) == to_numeric(e.time_minutes).n

DeclaredOrder ==
  <<"Social Media", "Productivity", "Entertainment", "Gaming", "News", "Shopping",
    "Health & Fitness", "Education">>

TaxonomyNames == {DeclaredOrder[i] : i \in 1..Len(DeclaredOrder)} \cup {"Other"}

\* C6: every record normalize returns has a parsed date, a non-empty app name, a
\* numeric time_minutes and a category among the eight taxonomy names and "Other":
\* the provided category when one is present and non-empty, else the Categorizer's
\* result for the app name.
C6_CanonicalRecordInvariant ==
  result.status = "returned" =>
    \A i \in 1..Len(analyzed_df) :
      LET row == analyzed_df[i]
          given == KeptEntries[i].category
      IN  /\ row.date.k = "ts"
          /\ row.app.k = "str" /\ row.app.s # <<>>
          /\ row.time_minutes.k = "num"
          /\ row.category.t \in TaxonomyNames
          /\ row.category.t =
               IF given.k = "str" /\ given.t # "" THEN given.t
               ELSE auto_categorize_app(row.app.s)

\* sum of the values of a dict with number values
RECURSIVE SumValues(_)
SumValues(f) ==
  IF DOMAIN f = {} THEN 0
  ELSE LET c == CHOOSE x \in DOMAIN f : TRUE
       IN  f[c] + SumValues([x \in DOMAIN f \ {c} |-> f[x]])

Abs(x) == IF x < 0 THEN -x ELSE x

\* C7: for a non-empty collection of canonical records every record's category is
\* a bucket of category_breakdown, the buckets sum to total_screen_time_hours up to
\* the rounding of each value (half of 1/100 hour for each bucket and for the total),
\* and doomscroll_hours is the "Social Media" bucket and at most the total.
C7_BreakdownSumsToTotal ==
  (result.status = "returned" /\ result.value.processed_entries_count > 0) =>
    LET m == result.value.metrics
        buckets == m.category_breakdown
    IN  /\ \A i \in 1..Len(analyzed_df) : analyzed_df[i].category.t \in DOMAIN buckets
        /\ 2 * Abs(SumValues(buckets) - m.total_screen_time_hours)
             <= Cardinality(DOMAIN buckets) + 1
        /\ m.doomscroll_hours =
             IF "Social Media" \in DOMAIN buckets THEN buckets["Social Media"] ELSE 0
        /\ m.doomscroll_hours <= m.total_screen_time_hours

\* C7 witness: two buckets, one of them "Social Media", with time in both
C7_Witness ==
  /\ result.status = "returned"
  /\ result.value.processed_entries_count > 0
  /\ LET m == result.value.metrics
     IN  /\ Cardinality(DOMAIN m.category_breakdown) >= 2
         /\ m.doomscroll_hours > 0
         /\ m.doomscroll_hours < m.total_screen_time_hours

\* the level the claim gives a total score
ClaimedLevel(total) ==
  IF total < 20 THEN "Casually Online"
  ELSE IF total < 40 THEN "Moderately Online"
  ELSE IF total < 60 THEN "Pretty Online"
  ELSE IF total < 80 THEN "Very Online"
  ELSE "Chronically Online"

\* C9: days_tracked = 0 gives score 0, level "Unknown", description "No data
\* available" and an empty breakdown; with days_tracked > 0 the level is the one the
\* total score alone determines, and never "Unknown".
C9_LevelFromTotal ==
  result.status = "returned" =>
    LET m == result.value.metrics
        cs == result.value.chronic_score
    IN  /\ m.days_tracked = 0 =>
             /\ cs.score = 0
             /\ cs.level = "Unknown"
             /\ cs.description = "No data available"
             /\ DOMAIN cs.breakdown = {}
        /\ m.days_tracked > 0 =>
             /\ cs.level = ClaimedLevel(cs.score)
             /\ cs.level # "Unknown"

\* C9 witness: a tracked day whose total falls in 60..79
C9_Witness ==
  /\ result.status = "returned"
  /\ result.value.metrics.days_tracked > 0
  /\ result.value.chronic_score.level = "Very Online"

\* the condition (1..8) that generates the tip with this category tag
GenerationOrder(tag) ==
  CASE tag = "general" -> 1
    [] tag = "social_media" -> 2
    [] tag = "pickups" -> 3
    [] tag = "specific_app" -> 4
    [] tag = "boundaries" -> 5
    [] tag = "balance" -> 6
    [] tag = "mindfulness" -> 7
    [] tag = "tracking" -> 8

Rank(priority) == IF priority = "high" THEN 0 ELSE IF priority = "medium" THEN 1 ELSE 2

\* the priority the claim gives each condition
ClaimedPriority(n) == IF n <= 3 THEN "high" ELSE IF n <= 6 THEN "medium" ELSE "low"

\* C10: a tip list returned by generate_tips is ordered by priority rank (high,
\* medium, low) and tips of equal priority are in generation order.
C10_TipsOrderedByPriority ==
  result.status = "returned" =>
    LET tips == result.value.tips
    IN  /\ \A i \in 1..Len(tips) :
             tips[i].priority = ClaimedPriority(GenerationOrder(tips[i].category))
        /\ \A i \in 1..Len(tips) : \A j \in (i + 1)..Len(tips) :
             /\ Rank(tips[i].priority) <= Rank(tips[j].priority)
             /\ tips[i].priority = tips[j].priority =>
                  GenerationOrder(tips[i].category) < GenerationOrder(tips[j].category)

\* C10 witness: all eight tips were generated
C10_Witness ==
  /\ result.status = "returned"
  /\ Len(result.value.tips) = 8

-----------------------------------------------------------------------------
(* Properties of auto_categorize_app (specification SpecCat) *)

\* the declared positions of the categories with a pattern in the lower-cased name
MatchingCategories(name) ==
  {i \in 1..Len(CATEGORY_PATTERNS) :
     \E j \in 1..Len(CATEGORY_PATTERNS[i].patterns) :
       Contains(Lower(name), CATEGORY_PATTERNS[i].patterns[j])}

\* C4: categorize returns the first category, in the declared order, with a pattern
\* that is a substring of the lower-cased name, and "Other" when there is none.
C4_FirstMatchWins ==
  category.status = "returned" =>
    /\ [i \in 1..Len(CATEGORY_PATTERNS) |-> CATEGORY_PATTERNS[i].category] = DeclaredOrder
    /\ category.value =
         IF MatchingCategories(app_name) = {} THEN "Other"
         ELSE DeclaredOrder[Min(MatchingCategories(app_name))]

\* C4 witness: a name with an upper-case letter that matches patterns of two
\* categories got the earlier one
C4_Witness ==
  /\ category.status = "returned"
  /\ Cardinality(MatchingCategories(app_name)) >= 2
  /\ Lower(app_name) # app_name
  /\ category.value = "Entertainment"

-----------------------------------------------------------------------------
(* Properties of calculate_chronic_score (specification SpecScore) *)

QuotLess(p, q) == p.num * q.den < q.num * p.den
QuotEq(p, q) == p.num * q.den = q.num * p.den

\* Metrics b differs from a by a larger value of exactly one of avg_hours_per_day,
\* doomscroll_ratio and avg_pickups_per_day, the other two being equal
OneInputLarger(a, b) ==
  \/ /\ QuotLess(avg_hours_per_day(a), avg_hours_per_day(b))
     /\ QuotEq(doomscroll_ratio(a), doomscroll_ratio(b))
     /\ QuotEq(avg_pickups(a), avg_pickups(b))
  \/ /\ QuotEq(avg_hours_per_day(a), avg_hours_per_day(b))
     /\ QuotLess(doomscroll_ratio(a), doomscroll_ratio(b))
     /\ QuotEq(avg_pickups(a), avg_pickups(b))
  \/ /\ QuotEq(avg_hours_per_day(a), avg_hours_per_day(b))
     /\ QuotEq(doomscroll_ratio(a), doomscroll_ratio(b))
     /\ QuotLess(avg_pickups(a), avg_pickups(b))

\* the two last calls were on Metrics with days_tracked > 0, the later one with one
\* input larger
ScoredPair ==
  /\ prev_call.status = "returned"
  /\ prev_call.value.metrics.days_tracked > 0
  /\ metrics.value.days_tracked > 0
  /\ OneInputLarger(prev_call.value.metrics, metrics.value)

\* C8: the score is non-decreasing in each of avg_hours_per_day, doomscroll_ratio
\* and avg_pickups_per_day, the other two held fixed.
C8_ScoreMonotone ==
  ScoredPair => prev_call.value.chronic_score.score <= chronic_score.value.score

\* C8 witness: a larger avg_hours_per_day alone raised the score
C8_Witness ==
  /\ ScoredPair
  /\ QuotLess(avg_hours_per_day(prev_call.value.metrics), avg_hours_per_day(metrics.value))
  /\ prev_call.value.chronic_score.score < chronic_score.value.score

-----------------------------------------------------------------------------
(* Properties of calculate_metrics on the sample lists (specification SpecSample) *)

\* the dates of the rows of df
DatesOf(df) == {df[i].date.n : i \in 1..Len(df)}

\* the pickups of the rows of df, added up
RECURSIVE PickupsOf(_)
PickupsOf(df) == IF df = <<>> THEN 0 ELSE Head(df).pickups.n + PickupsOf(Tail(df))

\* the first three test entries: one day, pickups 15, 20 and 5
OneDayExample == SubSeq(test_entries, 1, 3)

\* C11 as claimed: days_tracked is the number of distinct dates of the retained
\* records, total_pickups the sum of their pickups, and avg_pickups_per_day is
\* exactly total_pickups / days_tracked (0.0 when days_tracked is 0).
C11_AvgPickupsExact ==
  result.status = "returned" =>
    LET m == result.value.metrics
    IN  /\ m.days_tracked = Cardinality(DatesOf(analyzed_df))
        /\ m.total_pickups = PickupsOf(analyzed_df)
        /\ IF m.days_tracked = 0 THEN m.avg_pickups_per_day = 0
           ELSE m.avg_pickups_per_day * m.days_tracked = m.total_pickups * 100

\* C11 amended: days_tracked is the number of distinct dates of the retained
\* records, total_pickups the sum of their pickups, and avg_pickups_per_day is
\* total_pickups / days_tracked rounded to 2 decimals, so within 0.005 of the
\* quotient (0.0 when days_tracked is 0); three records on one date with pickups
\* 15, 20 and 5 give days_tracked = 1 and avg_pickups_per_day = 40.0.
C11_AvgPickupsRounded ==
  result.status = "returned" =>
    LET m == result.value.metrics
    IN  /\ m.days_tracked = Cardinality(DatesOf(analyzed_df))
        /\ m.total_pickups = PickupsOf(analyzed_df)
        /\ IF m.days_tracked = 0 THEN m.avg_pickups_per_day = 0
           ELSE 2 * Abs(m.avg_pickups_per_day * m.days_tracked - m.total_pickups * 100)
                  <= m.days_tracked
        /\ entries = OneDayExample =>
             m.days_tracked = 1 /\ m.total_pickups = 40 /\ m.avg_pickups_per_day = 4000

\* C11 witness: records of three days whose pickups do not divide by three
C11_Witness ==
  /\ result.status = "returned"
  /\ result.value.metrics.days_tracked = 3
  /\ result.value.metrics.total_pickups % 3 # 0
  /\ PickupsOf(analyzed_df) = result.value.metrics.total_pickups
  /\ Len(analyzed_df) > 3

\* the apps of the rows of df
AppsOf(df) == {df[i].app.s : i \in 1..Len(df)}

\* the time_hours (1/60 hour) of the rows of df of one app, added up
RECURSIVE AppHours(_, _)
AppHours(df, app) ==
  IF df = <<>> THEN 0
  ELSE (IF Head(df).app.s = app THEN Head(df).time_hours.n ELSE 0) + AppHours(Tail(df), app)

\* top is a list of at most 10 different apps of df, not empty, in descending order
\* of the apps' hours, and no app of df that is not in it has more hours than one
\* that is; the first app has the most hours of all
TopAppsChosen(top, df) ==
  /\ Len(top) \in 1..10
  /\ \A i \in 1..Len(top) : top[i].app \in AppsOf(df)
  /\ \A i \in 1..Len(top) : \A j \in (i + 1)..Len(top) :
       /\ top[i].app # top[j].app
       /\ AppHours(df, top[i].app) >= AppHours(df, top[j].app)
       /\ top[i].hours >= top[j].hours
  /\ \A app \in AppsOf(df) \ {top[i].app : i \in 1..Len(top)} :
       \A i \in 1..Len(top) : AppHours(df, app) <= AppHours(df, top[i].app)
  /\ \A app \in AppsOf(df) : AppHours(df, app) <= AppHours(df, top[1].app)

\* C14 as claimed: for a non-empty collection of records top_apps has at most 10
\* apps in descending order of hours, no app left out has more hours than a listed
\* one, the first is an app of maximal hours, and the value of each app is the sum
\* of the time_hours of its records.
C14_TopAppsExactSum ==
  (result.status = "returned" /\ analyzed_df # <<>>) =>
    LET top == result.value.metrics.top_apps
    IN  /\ TopAppsChosen(top, analyzed_df)
        /\ \A i \in 1..Len(top) : top[i].hours * 60 = AppHours(analyzed_df, top[i].app) * 100

\* C14 (amended): for a non-empty collection of records top_apps has at most 10
\* apps in descending order of hours, no app left out has more hours than a listed
\* one, the first is an app of maximal hours, and the value of each app is the sum
\* of the time_hours of its records rounded to 2 decimals.
C14_TopAppsRoundedSum ==
  (result.status = "returned" /\ analyzed_df # <<>>) =>
    LET top == result.value.metrics.top_apps
    IN  /\ TopAppsChosen(top, analyzed_df)
        /\ \A i \in 1..Len(top) : top[i].hours = RoundHours(AppHours(analyzed_df, top[i].app))

\* C14 witness: records of more than 10 apps, one app with two records, one value
\* that is rounded, and an app left out of top_apps
C14_Witness ==
  /\ result.status = "returned"
  /\ Cardinality(AppsOf(analyzed_df)) > 10
  /\ Len(analyzed_df) > Cardinality(AppsOf(analyzed_df))
  /\ Len(result.value.metrics.top_apps) = 10
  /\ \E i \in 1..10 : LET a == result.value.metrics.top_apps[i]
                       IN  a.hours * 60 # AppHours(analyzed_df, a.app) * 100

-----------------------------------------------------------------------------
(* Properties of the sub-scores (specification SpecScore) *)

\* the points of a quotient q on a scale of three steps, 10 points each
Band(q, step1, step2, step3) ==
  IF QuotLt(q, step1) THEN 0
  ELSE IF QuotLt(q, step2) THEN 10
  ELSE IF QuotLt(q, step3) THEN 20
  ELSE 30

\* C12: for every Metrics value with days_tracked > 0, time_score is 0/10/20/30/40
\* for avg_hours_per_day in <2, [2,4), [4,6), [6,8), >=8; doomscroll_score is
\* 0/10/20/30 for a doomscroll ratio in <20, [20,40), [40,60), >=60 percent (0 when
\* the total hours are 0); pickup_score is 0/10/20/30 for avg_pickups_per_day in
\* <50, [50,100), [100,150), >=150; the score is the sum of the three and lies in
\* 0..100.
C12_SubScoreBands ==
  (chronic_score.status = "returned" /\ metrics.value.days_tracked > 0) =>
    LET m == metrics.value
        c == chronic_score.value
        hours == Quot(m.total_screen_time_hours, 100 * m.days_tracked)
        ratio == IF m.total_screen_time_hours = 0 THEN Quot(0, 1)
                 ELSE Quot(100 * m.doomscroll_hours, m.total_screen_time_hours)
        pickups == Quot(m.avg_pickups_per_day, 100)
    IN  /\ c.breakdown.time_score = IF QuotLt(hours, 8) THEN Band(hours, 2, 4, 6) ELSE 40
        /\ c.breakdown.doomscroll_score = Band(ratio, 20, 40, 60)
        /\ c.breakdown.pickup_score = Band(pickups, 50, 100, 150)
        /\ c.score = c.breakdown.time_score + c.breakdown.doomscroll_score
                       + c.breakdown.pickup_score
        /\ c.score \in 0..100

-----------------------------------------------------------------------------
(* Properties of generate_tips (specification Spec) *)

\* the category tags of the tips in a list
TagsOf(tips) == {tips[i].category : i \in 1..Len(tips)}

\* the conditions the tips are generated on, read on the metrics
TipCondition(m, n) ==
  LET avg == IF m.days_tracked > 0 THEN avg_hours_per_day(m) ELSE Quot(0, 1)
      social == breakdown_get(m, "Social Media")
      productivity == breakdown_get(m, "Productivity")
  IN  CASE n = 1 -> QuotGe(avg, 6)
        [] n = 2 -> QuotGe(doomscroll_ratio(m), 40)
        [] n = 3 -> m.avg_pickups_per_day >= 100 * 100
        [] n = 4 -> has_top_apps(m) /\ m.top_apps[1].hours >= 2 * 100
        [] n = 5 -> QuotGe(avg, 4)
        [] n = 6 -> social > 2 * productivity /\ social > 0 /\ productivity > 0
        [] OTHER -> TRUE

TipTags == {"general", "social_media", "pickups", "specific_app", "boundaries",
            "balance", "mindfulness", "tracking"}

\* C13: generate_tips returns no tip for an empty collection of records; otherwise
\* each of the eight tips is in the list exactly when its condition holds on the
\* metrics (6 and 4 hours a day, 40 percent doomscroll, 100 pickups a day, a top app
\* of 2 hours, Social Media more than twice Productivity with both positive, the
\* last two always), so the list has 2 to 8 tips and the general tip comes with the
\* boundaries tip.
C13_TipConditions ==
  result.status = "returned" =>
    LET tips == result.value.tips
        m == result.value.metrics
    IN  IF analyzed_df = <<>>
        THEN tips = <<>>
        ELSE /\ TagsOf(tips) \subseteq TipTags
             /\ \A tag \in TipTags :
                  tag \in TagsOf(tips) <=> TipCondition(m, GenerationOrder(tag))
             /\ Len(tips) = Cardinality(TagsOf(tips))
             /\ Len(tips) \in 2..8
             /\ "general" \in TagsOf(tips) => "boundaries" \in TagsOf(tips)

-----------------------------------------------------------------------------
(* Properties of the endpoints (specification SpecApi) *)

\* C15: after any sequence of submit_entries and clear_entries requests each user's
\* stored history is the concatenation, in submission order, of the entries
\* submitted for the user since the user's last clear; a submit or clear for one
\* user leaves every other user's history as it was; get_analytics changes no
\* history; and the total_entries a submit reports is the length of the user's
\* history after the request.
C15_HistoryIsSubmitted ==
  /\ DOMAIN _storage \subseteq UserIds
  /\ \A u \in UserIds : stored_entries(_storage, u) = accepted[u]
  /\ request.op \in {"submit_entries", "clear_entries"} =>
       \A u \in UserIds \ {request.user_id} :
         stored_entries(_storage, u) = stored_entries(storage_before, u)
  /\ request.op = "get_analytics" =>
       \A u \in UserIds : stored_entries(_storage, u) = stored_entries(storage_before, u)
  /\ (request.op = "submit_entries" /\ response.status_code = 200) =>
       response.total_entries = Len(stored_entries(_storage, request.user_id))

\* C15 witness: a second submit for a user has been added to the first, while the
\* other user has entries too
C15_Witness ==
  /\ request.op = "submit_entries"
  /\ response.status_code = 200
  /\ stored_entries(storage_before, request.user_id) # <<>>
  /\ Len(stored_entries(_storage, request.user_id)) = 3
  /\ response.total_entries = 3
  /\ \E u \in UserIds \ {request.user_id} : stored_entries(_storage, u) # <<>>

\* C16: when submit_entries ends with an error response because the analysis of
\* the user's history raises, the user's stored history is the same as before the
\* request.
C16_FailedSubmitStoresNothing ==
  (request.op = "submit_entries" /\ response.status_code = 400) =>
    stored_entries(_storage, request.user_id) = stored_entries(storage_before, request.user_id)

-----------------------------------------------------------------------------
(* Properties of auto_categorize_app on the patterns (specification SpecPattern) *)

\* C17: no pattern is shadowed by a category declared earlier: for every category
\* and every pattern listed under it, auto_categorize_app of the pattern itself
\* returns that category.
C17_NoPatternShadowed ==
  category.status = "returned" =>
    \A i \in 1..Len(CATEGORY_PATTERNS) :
      (\E j \in 1..Len(CATEGORY_PATTERNS[i].patterns) :
         CATEGORY_PATTERNS[i].patterns[j] = app_name)
        => category.value = CATEGORY_PATTERNS[i].category

====
